---------------------------- MODULE Spec2Model ----------------------------
(***************************************************************************)
(* Raw-DEFLATE decoding as exercised by analyze_python_deflate.py and      *)
(* check_deflate_consume.py.  Both scripts create dec =                     *)
(* zlib.decompressobj(-15) and drive it with dec.decompress(chunk),         *)
(* dec.flush(), dec.unused_data and dec.eof.  The decompression object is   *)
(* modelled bit for bit as the inflate state machine those calls run        *)
(* (modes TYPE, STORED, COPY, TABLE, LENLENS, CODELENS, LEN, LENEXT, DIST,  *)
(* DISTEXT, MATCH, DONE, BAD); the scripts are modelled statement by        *)
(* statement around it.                                                     *)
(***************************************************************************)
EXTENDS Integers, Sequences, FiniteSets, TLC

VARIABLES
    script,         \* which script runs: "analyze", "check" or "api"
    compressed,     \* the input byte string
    tracked_input,  \* TrackingBytesIO: [pos, bytes_read]
    dec,            \* the decompression object
    output,         \* bytes returned so far (output += decompressed)
    chunk,          \* the chunk of the last read / decompress call
    decompressed,   \* bytes returned by the last decompress call
    final,          \* bytes returned by the last flush call
    exc,            \* message of the exception the last call raised, "" if none
    op,             \* the last call made on dec: "none", "decompress", "flush"
    unused,         \* unused = dec.unused_data, once read
    nfeeds,         \* number of dec.decompress calls a script has made
    pc,             \* position in the script
    ref             \* the same input decompressed by one single call

vars == <<script, compressed, tracked_input, dec, output, chunk, decompressed,
          final, exc, op, unused, nfeeds, pc, ref>>

(***************************************************************************)
(* Bounds of the model.                                                     *)
(***************************************************************************)
MaxChunk == 2
MaxTrail == 2

(***************************************************************************)
(* Arithmetic helpers.                                                      *)
(***************************************************************************)
Pow2(n) == 2^n

Min(a, b) == IF a < b THEN a ELSE b

Max(a, b) == IF a < b THEN b ELSE a

Range(lo, hi) == [i \in 1..(hi - lo + 1) |-> lo + i - 1]

Fill(n, v) == [i \in 1..n |-> v]

IsPrefix(s, t) == Len(s) <= Len(t) /\ SubSeq(t, 1, Len(s)) = s

(***************************************************************************)
(* Bit Reader.  The cursor is (byteOff, bitOff); buf holds the bytes fed    *)
(* and not yet retired, so the cursor's byte is Head(buf).  bitsRead counts *)
(* every bit read or discarded.                                             *)
(***************************************************************************)
Avail(d) == 8 * Len(d.buf) - d.bitOff

BitAt(d, i) ==
    LET j == d.bitOff + i
    IN (d.buf[(j \div 8) + 1] \div Pow2(j % 8)) % 2

RECURSIVE PeekBits(_, _, _)
\* the n bits starting i bits after the cursor, least significant first
PeekBits(d, i, n) ==
    IF n = 0 THEN 0 ELSE BitAt(d, i) + 2 * PeekBits(d, i + 1, n - 1)

BITS(d, n) == PeekBits(d, 0, n)

DropBitsNoCarry(d, n) ==
    [d EXCEPT !.buf = SubSeq(@, (n \div 8) + 1, Len(@)),
              !.byteOff = @ + (n \div 8),
              !.bitOff = (d.bitOff + n) % 8,
              !.bitsRead = @ + n]

DROPBITS(d, n) ==
    LET t == d.bitOff + n
    IN [d EXCEPT !.buf = SubSeq(@, (t \div 8) + 1, Len(@)),
                 !.byteOff = @ + (t \div 8),
                 !.bitOff = t % 8,
                 !.bitsRead = @ + n]

alignToByte(d) == IF d.bitOff = 0 THEN d ELSE DROPBITS(d, 8 - d.bitOff)

feed(d, bytes) == [d EXCEPT !.buf = @ \o bytes]

(***************************************************************************)
(* Canonical Huffman tables.  A table is [max, bylen]: bylen[l] is the      *)
(* sequence of the symbols whose code has l bits, in symbol order; the      *)
(* codes of one length are consecutive, and the first code of length l is   *)
(* (first code of length l-1 + number of codes of length l-1) * 2.          *)
(***************************************************************************)
MAXBITS == 15

\* the symbols (index - 1) whose length is l, in increasing order
SymbolsOfLen(lens, l) ==
    LET idx == {i \in 1..Len(lens) : lens[i] = l}
    IN [k \in 1..Cardinality(idx) |->
          (CHOOSE i \in idx : Cardinality({j \in idx : j < i}) = k - 1) - 1]

CodeCount(lens, l) == Cardinality({i \in 1..Len(lens) : lens[i] = l})

RECURSIVE MaxCodeLen(_, _)
MaxCodeLen(lens, l) ==
    IF l = 0 THEN 0
    ELSE IF CodeCount(lens, l) > 0 THEN l ELSE MaxCodeLen(lens, l - 1)

RECURSIVE CodeSpaceLeft(_, _)
\* left after lengths 1..l: left := 2*left - count[l]; -1 once over-subscribed
CodeSpaceLeft(lens, l) ==
    IF l = 0 THEN 1
    ELSE LET prev == CodeSpaceLeft(lens, l - 1)
         IN IF prev < 0 THEN -1
            ELSE IF 2 * prev - CodeCount(lens, l) < 0 THEN -1
            ELSE 2 * prev - CodeCount(lens, l)

\* inflate_table's verdict: TRUE when the set of lengths is accepted
TableOk(lens, type) ==
    LET max == MaxCodeLen(lens, MAXBITS)
        left == CodeSpaceLeft(lens, MAXBITS)
    IN \/ max = 0
       \/ /\ left >= 0
          /\ ~(left > 0 /\ (type = "CODES" \/ max # 1))

BuildTable(lens) ==
    [max |-> MaxCodeLen(lens, MAXBITS),
     bylen |-> [l \in 1..MAXBITS |-> SymbolsOfLen(lens, l)]]

RECURSIVE DecodeFrom(_, _, _, _, _)
\* len bits are being tried; code holds the first len - 1 bits, most
\* significant first; first is the first code of length len
DecodeFrom(tbl, d, len, code, first) ==
    IF len > Max(tbl.max, 1) THEN [st |-> "invalid", sym |-> 0, bits |-> len - 1]
    ELSE IF Avail(d) < len THEN [st |-> "need", sym |-> 0, bits |-> 0]
    ELSE LET c == 2 * code + BitAt(d, len - 1)
             count == Len(tbl.bylen[len])
         IN IF c - first < count
            THEN [st |-> "ok", sym |-> tbl.bylen[len][c - first + 1], bits |-> len]
            ELSE DecodeFrom(tbl, d, len + 1, c, 2 * (first + count))

decodeSymbol(tbl, d) == DecodeFrom(tbl, d, 1, 0, 0)

\* the fixed codes: lengths 8, 9, 7, 8 for the literal/length symbols
\* 0..143, 144..255, 256..279, 280..287, and 5 for the 32 distance symbols
FixedLenCode ==
    [max |-> 9,
     bylen |-> [l \in 1..MAXBITS |->
                  CASE l = 7 -> Range(256, 279)
                    [] l = 8 -> Range(0, 143) \o Range(280, 287)
                    [] l = 9 -> Range(144, 255)
                    [] OTHER -> <<>>]]

FixedDistCode ==
    [max |-> 5,
     bylen |-> [l \in 1..MAXBITS |-> IF l = 5 THEN Range(0, 31) ELSE <<>>]]

NoCode == [max |-> 0, bylen |-> [l \in 1..MAXBITS |-> <<>>]]

lbase == <<3, 4, 5, 6, 7, 8, 9, 10, 11, 13, 15, 17, 19, 23, 27, 31, 35, 43,
           51, 59, 67, 83, 99, 115, 131, 163, 195, 227, 258>>

lext == <<0, 0, 0, 0, 0, 0, 0, 0, 1, 1, 1, 1, 2, 2, 2, 2, 3, 3, 3, 3, 4, 4,
          4, 4, 5, 5, 5, 5, 0>>

dbase == <<1, 2, 3, 4, 5, 7, 9, 13, 17, 25, 33, 49, 65, 97, 129, 193, 257,
           385, 513, 769, 1025, 1537, 2049, 3073, 4097, 6145, 8193, 12289,
           16385, 24577>>

dext == <<0, 0, 0, 0, 1, 1, 2, 2, 3, 3, 4, 4, 5, 5, 6, 6, 7, 7, 8, 8, 9, 9,
          10, 10, 11, 11, 12, 12, 13, 13>>

order == <<16, 17, 18, 0, 8, 7, 9, 6, 10, 5, 11, 4, 12, 3, 13, 2, 14, 1, 15>>

(***************************************************************************)
(* The decompression object created by zlib.decompressobj(-15): raw         *)
(* DEFLATE, no header or trailer, a window of 2^15 bytes.                   *)
(***************************************************************************)
decompressobj ==
    [mode |-> "TYPE", last |-> 0,
     buf |-> <<>>, byteOff |-> 0, bitOff |-> 0, bitsRead |-> 0,
     length |-> 0, offset |-> 0, extra |-> 0,
     nlen |-> 0, ndist |-> 0, ncode |-> 0, have |-> 0, lens |-> <<>>,
     lencode |-> NoCode, distcode |-> NoCode,
     out |-> <<>>, msg |-> "", oob |-> FALSE,
     eof |-> FALSE, unused_data |-> <<>>, is_initialised |-> TRUE]

Bad(d, m) == [d EXCEPT !.mode = "BAD", !.msg = m]

\* TYPE: after the last block, byte-align and finish; else read the 3-bit
\* block header: the final flag, then the block type
StepTYPE(d) ==
    IF d.last = 1 THEN [alignToByte(d) EXCEPT !.mode = "DONE"]
    ELSE IF Avail(d) < 3 THEN d
    ELSE LET type == BITS(d, 3) \div 2
             e == [DROPBITS(d, 3) EXCEPT !.last = BITS(d, 1)]
         IN CASE type = 0 -> [e EXCEPT !.mode = "STORED"]
              [] type = 1 -> [e EXCEPT !.mode = "LEN",
                                       !.lencode = FixedLenCode,
                                       !.distcode = FixedDistCode]
              [] type = 2 -> [e EXCEPT !.mode = "TABLE"]
              [] OTHER -> Bad(e, "invalid block type")

\* STORED: go to a byte boundary, read LEN and NLEN
StepSTORED(d) ==
    LET a == alignToByte(d)
    IN IF Avail(a) < 32 THEN a
       ELSE LET len == BITS(a, 16)
                nlen == PeekBits(a, 16, 16)
            IN IF len # 65535 - nlen
               THEN Bad(DROPBITS(a, 32), "invalid stored block lengths")
               ELSE [DROPBITS(a, 32) EXCEPT !.length = len, !.mode = "COPY"]

StepCOPYWaitsForData(d) ==
    LET copy == Min(d.length, Len(d.buf))
    IN IF copy = 0 THEN d
       ELSE IF d.length = copy
       THEN [DROPBITS(d, 8 * copy) EXCEPT
                !.out = @ \o SubSeq(d.buf, 1, copy),
                !.length = 0, !.mode = "TYPE"]
       ELSE [DROPBITS(d, 8 * copy) EXCEPT
                !.out = @ \o SubSeq(d.buf, 1, copy),
                !.length = @ - copy]

\* COPY: copy the stored bytes that are there
StepCOPY(d) ==
    IF d.length = 0 THEN [d EXCEPT !.mode = "TYPE"]
    ELSE LET copy == Min(d.length, Len(d.buf))
         IN IF copy = 0 THEN d
            ELSE [DROPBITS(d, 8 * copy) EXCEPT
                     !.out = @ \o SubSeq(d.buf, 1, copy),
                     !.length = @ - copy]

\* TABLE: the counts of a dynamic block
StepTABLE(d) ==
    IF Avail(d) < 14 THEN d
    ELSE LET nlen == BITS(d, 5) + 257
             ndist == PeekBits(d, 5, 5) + 1
             ncode == PeekBits(d, 10, 4) + 4
             e == [DROPBITS(d, 14) EXCEPT !.nlen = nlen, !.ndist = ndist,
                                          !.ncode = ncode, !.have = 0,
                                          !.lens = Fill(19, 0)]
         IN IF nlen > 286 \/ ndist > 30
            THEN Bad(e, "too many length or distance symbols")
            ELSE [e EXCEPT !.mode = "LENLENS"]

\* LENLENS: the code lengths of the code length alphabet, in the fixed order
StepLENLENS(d) ==
    IF d.have < d.ncode THEN
        IF Avail(d) < 3 THEN d
        ELSE [DROPBITS(d, 3) EXCEPT !.lens[order[d.have + 1] + 1] = BITS(d, 3),
                                    !.have = @ + 1]
    ELSE IF ~TableOk(d.lens, "CODES")
         THEN Bad(d, "invalid code lengths set")
         ELSE [d EXCEPT !.lencode = BuildTable(d.lens), !.have = 0,
                        !.lens = <<>>, !.mode = "CODELENS"]

\* the end of CODELENS: build the literal/length and the distance tables
EndCODELENS(d) ==
    LET ll == SubSeq(d.lens, 1, d.nlen)
        dl == SubSeq(d.lens, d.nlen + 1, d.nlen + d.ndist)
    IN IF d.lens[257] = 0
       THEN Bad(d, "invalid code -- missing end-of-block")
       ELSE IF ~TableOk(ll, "LENS")
       THEN Bad(d, "invalid literal/lengths set")
       ELSE IF ~TableOk(dl, "DISTS")
       THEN Bad(d, "invalid distances set")
       ELSE [d EXCEPT !.lencode = BuildTable(ll), !.distcode = BuildTable(dl),
                      !.lens = <<>>, !.have = 0, !.mode = "LEN"]

\* CODELENS: the code lengths of both alphabets, run-length coded
\* (a code the table does not assign reads as length 0, one bit long)
StepCODELENS(d) ==
    IF d.have >= d.nlen + d.ndist THEN EndCODELENS(d)
    ELSE
    LET here == decodeSymbol(d.lencode, d)
    IN IF here.st = "need" THEN d
       ELSE IF here.st = "invalid" \/ here.sym < 16
       THEN [DROPBITS(d, here.bits) EXCEPT !.lens = Append(@, here.sym),
                                           !.have = @ + 1]
       ELSE
       LET xb == CASE here.sym = 16 -> 2 [] here.sym = 17 -> 3 [] OTHER -> 7
           base == IF here.sym = 18 THEN 11 ELSE 3
       IN IF Avail(d) < here.bits + xb THEN d
          ELSE LET e == DROPBITS(d, here.bits)
                   copy == base + BITS(e, xb)
               IN IF here.sym = 16 /\ d.have = 0
                  THEN Bad(DROPBITS(e, xb), "invalid bit length repeat")
                  ELSE LET len == IF here.sym = 16 THEN d.lens[d.have] ELSE 0
                           f == DROPBITS(e, xb)
                       IN IF d.have + copy > d.nlen + d.ndist
                          THEN Bad(f, "invalid bit length repeat")
                          ELSE [f EXCEPT !.lens = @ \o Fill(copy, len),
                                         !.have = @ + copy]

StepLENFailsWhenShort(d) ==
    LET here == decodeSymbol(d.lencode, d)
    IN IF here.st # "ok"
       THEN Bad(d, "invalid literal/length code")
       ELSE LET e == DROPBITS(d, here.bits)
            IN IF here.sym < 256
               THEN [e EXCEPT !.out = Append(@, here.sym)]
               ELSE IF here.sym = 256 THEN [e EXCEPT !.mode = "TYPE"]
               ELSE IF here.sym > 285
               THEN Bad(e, "invalid literal/length code")
               ELSE [e EXCEPT !.length = lbase[here.sym - 256],
                              !.extra = lext[here.sym - 256],
                              !.mode = "LENEXT"]

\* LEN: a literal/length symbol
StepLEN(d) ==
    LET here == decodeSymbol(d.lencode, d)
    IN IF here.st = "need" THEN d
       ELSE IF here.st = "invalid"
       THEN Bad(DROPBITS(d, here.bits), "invalid literal/length code")
       ELSE LET e == DROPBITS(d, here.bits)
            IN IF here.sym < 256
               THEN [e EXCEPT !.out = Append(@, here.sym)]
               ELSE IF here.sym = 256 THEN [e EXCEPT !.mode = "TYPE"]
               ELSE IF here.sym > 285
               THEN Bad(e, "invalid literal/length code")
               ELSE [e EXCEPT !.length = lbase[here.sym - 256],
                              !.extra = lext[here.sym - 256],
                              !.mode = "LENEXT"]

\* LENEXT: the extra bits of a length
StepLENEXT(d) ==
    IF Avail(d) < d.extra THEN d
    ELSE [DROPBITS(d, d.extra) EXCEPT !.length = @ + BITS(d, d.extra),
                                      !.mode = "DIST"]

\* DIST: a distance symbol
StepDIST(d) ==
    LET here == decodeSymbol(d.distcode, d)
    IN IF here.st = "need" THEN d
       ELSE IF here.st = "invalid"
       THEN Bad(DROPBITS(d, here.bits), "invalid distance code")
       ELSE LET e == DROPBITS(d, here.bits)
            IN IF here.sym > 29 THEN Bad(e, "invalid distance code")
               ELSE [e EXCEPT !.offset = dbase[here.sym + 1],
                              !.extra = dext[here.sym + 1],
                              !.mode = "DISTEXT"]

\* DISTEXT: the extra bits of a distance
StepDISTEXT(d) ==
    IF Avail(d) < d.extra THEN d
    ELSE [DROPBITS(d, d.extra) EXCEPT !.offset = @ + BITS(d, d.extra),
                                      !.mode = "MATCH"]

DistanceUnchecked(d) == FALSE

\* the distance check of MATCH: the copy may reach back over the output
\* produced so far (a distance is at most 32768, the window of -15)
DistanceTooFar(d) == d.offset > Len(d.out)

\* copy length bytes from offset bytes back; a byte from before the start
\* of the output reads as 0 and is recorded in oob
CopyMatch(d) ==
    LET n == Len(d.out)
        src(i) == n - d.offset + 1 + ((i - n - 1) % d.offset)
    IN [d EXCEPT !.out = [i \in 1..(n + d.length) |->
                            IF i <= n THEN d.out[i]
                            ELSE IF src(i) < 1 THEN 0 ELSE d.out[src(i)]],
                 !.oob = @ \/ d.offset > n,
                 !.length = 0,
                 !.mode = "LEN"]

\* MATCH: the back-reference
StepMATCH(d) ==
    IF DistanceTooFar(d) THEN Bad(d, "invalid distance too far back")
    ELSE CopyMatch(d)

Step(d) ==
    CASE d.mode = "TYPE" -> StepTYPE(d)
      [] d.mode = "STORED" -> StepSTORED(d)
      [] d.mode = "COPY" -> StepCOPY(d)
      [] d.mode = "TABLE" -> StepTABLE(d)
      [] d.mode = "LENLENS" -> StepLENLENS(d)
      [] d.mode = "CODELENS" -> StepCODELENS(d)
      [] d.mode = "LEN" -> StepLEN(d)
      [] d.mode = "LENEXT" -> StepLENEXT(d)
      [] d.mode = "DIST" -> StepDIST(d)
      [] d.mode = "DISTEXT" -> StepDISTEXT(d)
      [] d.mode = "MATCH" -> StepMATCH(d)
      [] OTHER -> d

Stopped(d) == d.mode \in {"DONE", "BAD"} \/ Step(d) = d

RECURSIVE Steps(_, _)
RECURSIVE StepsMore(_, _)
\* up to 2^k steps of the state machine, stopping where it stops
Steps(d, k) == IF k = 0 THEN Step(d) ELSE StepsMore(Steps(d, k - 1), k - 1)

StepsMore(h, k) == IF Stopped(h) THEN h ELSE Steps(h, k)

RECURSIVE inflate(_)
\* run the state machine as far as the buffered bits allow: until the
\* stream ends, an error is found, or a field needs more bits than there are
inflate(d) ==
    IF Stopped(d) THEN d ELSE inflate(Steps(d, 8))

(***************************************************************************)
(* The calls the scripts make on the decompression object.                  *)
(***************************************************************************)
ReturnedOverwritesUnused(d, e) ==
    CASE e.mode = "DONE" ->
           [d |-> [e EXCEPT !.eof = TRUE, !.unused_data = e.buf,
                            !.buf = <<>>],
            ret |-> SubSeq(e.out, Len(d.out) + 1, Len(e.out)), exc |-> ""]
      [] e.mode = "BAD" ->
           [d |-> [e EXCEPT !.buf = IF e.bitOff > 0 THEN <<Head(e.buf)>>
                                    ELSE <<>>],
            ret |-> <<>>, exc |-> e.msg]
      [] OTHER ->
           [d |-> e, ret |-> SubSeq(e.out, Len(d.out) + 1, Len(e.out)),
            exc |-> ""]

\* what a call returns once inflate has left the object as e: the new
\* output; at the end of the stream the bytes not taken go to unused_data;
\* on an error the call raises and returns nothing
Returned(d, e) ==
    CASE e.mode = "DONE" ->
           [d |-> [e EXCEPT !.eof = TRUE,
                            !.unused_data = @ \o e.buf,
                            !.buf = <<>>],
            ret |-> SubSeq(e.out, Len(d.out) + 1, Len(e.out)), exc |-> ""]
      [] e.mode = "BAD" ->
           [d |-> [e EXCEPT !.buf = IF e.bitOff > 0 THEN <<Head(e.buf)>>
                                    ELSE <<>>],
            ret |-> <<>>, exc |-> e.msg]
      [] OTHER ->
           [d |-> e, ret |-> SubSeq(e.out, Len(d.out) + 1, Len(e.out)),
            exc |-> ""]

decompressForgetsPending(d, data) ==
    IF ~d.is_initialised
    THEN [d |-> d, ret |-> <<>>, exc |-> "inconsistent stream state"]
    ELSE Returned(d, inflate([d EXCEPT !.buf = data, !.bitOff = 0]))

decompressRetriesAfterError(d, data) ==
    IF ~d.is_initialised
    THEN [d |-> d, ret |-> <<>>, exc |-> "inconsistent stream state"]
    ELSE Returned(d, inflate(feed([d EXCEPT !.mode = IF @ = "BAD" THEN "TYPE"
                                                   ELSE @], data)))

\* dec.decompress(data): [d, ret, exc].  All of data is taken unless the
\* stream ends or an error is raised
decompress(d, data) ==
    IF ~d.is_initialised
    THEN [d |-> d, ret |-> <<>>, exc |-> "inconsistent stream state"]
    ELSE Returned(d, inflate(feed(d, data)))

FlushedRaisesUnlessDone(d, e) ==
    IF e.mode = "DONE"
    THEN [d |-> [e EXCEPT !.eof = TRUE, !.is_initialised = FALSE],
          ret |-> <<>>, exc |-> ""]
    ELSE [d |-> e, ret |-> <<>>,
          exc |-> IF e.mode = "BAD" THEN e.msg ELSE "incomplete stream"]

\* what flush returns: the new output, never an exception; at the end of
\* the stream the stream object is ended
Flushed(d, e) ==
    IF e.mode = "DONE"
    THEN [d |-> [e EXCEPT !.eof = TRUE, !.is_initialised = FALSE],
          ret |-> SubSeq(e.out, Len(d.out) + 1, Len(e.out)), exc |-> ""]
    ELSE [d |-> e,
          ret |-> IF e.mode = "BAD" THEN <<>>
                  ELSE SubSeq(e.out, Len(d.out) + 1, Len(e.out)),
          exc |-> ""]

\* dec.flush(): [d, ret, exc].  Runs the state machine on what is buffered
flush(d) == Flushed(d, inflate(d))

\* bytes of input the decoder has taken: what was fed less unused_data
bytesConsumed(d) == d.byteOff + Len(d.buf)

isEOF(d) == d.eof

unusedData(d) == d.unused_data

(***************************************************************************)
(* TrackingBytesIO: a byte source that counts what it hands out.            *)
(***************************************************************************)
TrackingBytesIO == [pos |-> 0, bytes_read |-> 0]

readCountsSize(t, bytes, size) ==
    LET left == Len(bytes) - t.pos
        n == IF size < 0 THEN left ELSE Min(size, left)
        data == SubSeq(bytes, t.pos + 1, t.pos + n)
    IN [t |-> [pos |-> t.pos + n, bytes_read |-> t.bytes_read + size],
        data |-> data]

\* read(size): up to size bytes from pos (all that is left when size < 0)
read(t, bytes, size) ==
    LET left == Len(bytes) - t.pos
        n == IF size < 0 THEN left ELSE Min(size, left)
        data == SubSeq(bytes, t.pos + 1, t.pos + n)
    IN [t |-> [pos |-> t.pos + n, bytes_read |-> t.bytes_read + Len(data)],
        data |-> data]

(***************************************************************************)
(* Inputs.  Sample is the byte string of both scripts; the others are       *)
(* small raw-DEFLATE streams covering each block type and each error.       *)
(***************************************************************************)
SampleWithoutLastByte ==
    <<11, 201, 200, 44, 86, 0, 162, 228, 252, 220, 130, 162, 212, 226, 226, 212,
      20, 133, 242, 204, 146, 12, 5, 223, 96, 221, 40, 207, 0, 46, 176, 116,
      98, 78, 113, 62, 30, 53>>

\* compressed of both scripts: one final fixed-Huffman block
Sample ==
    <<11, 201, 200, 44, 86, 0, 162, 228, 252, 220, 130, 162, 212, 226, 226,
      212, 20, 133, 242, 204, 146, 12, 5, 223, 96, 221, 40, 207, 0, 46,
      176, 116, 98, 78, 113, 62, 30, 53, 0>>

\* a final stored block with LEN=0
EmptyStoredFinal ==
    <<1, 0, 0, 255, 255>>

\* a non-final and a final stored block, both with LEN=0
EmptyStoredTwice ==
    <<0, 0, 0, 255, 255, 1, 0, 0, 255, 255>>

\* a final stored block holding "AB"
StoredAB ==
    <<1, 2, 0, 253, 255, 65, 66>>

\* a stored block with NLEN # ~LEN
StoredBadLen ==
    <<1, 0, 0, 255, 254>>

\* block type 3
BadType ==
    <<7>>

\* fixed "ab", an empty non-final stored block, an empty final fixed block
FixedSyncFinal ==
    <<74, 76, 2, 0, 0, 0, 255, 255, 3, 0>>

\* fixed: "a", a match of distance 1, "b"
FixedRun ==
    <<75, 76, 132, 128, 36, 0>>

\* fixed: a match of distance 1 with no output yet
FarAtStart ==
    <<3, 2, 0>>

\* fixed: "a", then a match of distance 2
FarAfterOne ==
    <<75, 4, 66, 0>>

\* fixed: "ab", then a match of length 4 and distance 2
Overlap ==
    <<75, 76, 2, 65, 0>>

\* fixed: "a", then literal/length symbol 286
BadLitLen ==
    <<75, 28, 3>>

\* fixed: "a", a length, then distance symbol 30
BadDist ==
    <<75, 4, 62>>

\* a non-final fixed block "a", then a final stored block "B"
FixedThenStored ==
    <<74, 4, 4, 1, 0, 254, 255, 66>>

\* dynamic: "a", then a match of length 3 and distance 1
DynRun ==
    <<13, 192, 1, 9, 0, 0, 0, 128, 160, 173, 254, 63, 81, 90>>

\* dynamic without distance codes: "aa"
DynLit ==
    <<5, 192, 1, 9, 0, 0, 0, 128, 160, 173, 254, 63, 33, 4>>

\* dynamic: a match of distance 1 with no output yet
DynFar ==
    <<13, 192, 1, 9, 0, 0, 0, 128, 160, 173, 254, 63, 81, 46>>

\* dynamic: the unassigned code of an incomplete distance code
DynBadDist ==
    <<13, 192, 1, 9, 0, 0, 0, 128, 160, 173, 254, 63, 81, 58>>

\* dynamic header without a code for end-of-block
DynNoEOB ==
    <<13, 192, 129, 0, 0, 0, 0, 0, 144, 86, 255, 21, 0>>

\* dynamic header with an over-subscribed literal/length code
DynOverLit ==
    <<13, 192, 129, 0, 0, 0, 0, 0, 144, 86, 255, 19, 0>>

\* dynamic header that repeats the previous length first
DynRepeatFirst ==
    <<13, 192, 3, 0, 0, 0, 0, 0, 144, 0>>

\* dynamic header with 287 literal/length codes
DynTooMany ==
    <<245, 0, 0, 0>>

\* dynamic header with an incomplete code length code
DynBadCL ==
    <<5, 0, 146, 0>>

\* dynamic header whose repeat runs past the last length
DynRepeatOver ==
    <<13, 0, 128, 228, 255, 63, 0>>

Streams ==
    {Sample, EmptyStoredFinal, EmptyStoredTwice, StoredAB,
     StoredBadLen, BadType, FixedSyncFinal, FixedRun,
     FarAtStart, FarAfterOne, Overlap, BadLitLen,
     BadDist, FixedThenStored, DynRun, DynLit,
     DynFar, DynBadDist, DynNoEOB, DynOverLit,
     DynRepeatFirst, DynTooMany, DynBadCL, DynRepeatOver}

TrailBytes == {0, 165}

RECURSIVE SeqsUpTo(_, _)
\* the sequences over S of length at most n
SeqsUpTo(S, n) ==
    IF n = 0 THEN {<<>>}
    ELSE LET shorter == SeqsUpTo(S, n - 1)
         IN shorter \cup {Append(t, b) : t \in shorter, b \in S}

\* the inputs of the decoder: a stream, followed by up to MaxTrail bytes
Inputs == {s \o t : s \in Streams, t \in SeqsUpTo(TrailBytes, MaxTrail)}

(***************************************************************************)
(* analyze_python_deflate.py, statement by statement.                       *)
(***************************************************************************)
chunk_size == 1

\* the state both scripts start from, with the input given
Start(s, bytes, at) ==
    /\ script = s
    /\ compressed = bytes
    /\ tracked_input = TrackingBytesIO
    /\ dec = decompressobj
    /\ output = <<>>
    /\ chunk = <<>>
    /\ decompressed = <<>>
    /\ final = <<>>
    /\ exc = ""
    /\ op = "none"
    /\ unused = <<>>
    /\ nfeeds = 0
    /\ pc = at
    /\ ref = decompress(decompressobj, bytes)

\* chunk = tracked_input.read(chunk_size)
Read ==
    /\ script = "analyze" /\ pc = "read"
    /\ \E r \in {read(tracked_input, compressed, chunk_size)} :
          /\ tracked_input' = r.t
          /\ chunk' = r.data
    /\ pc' = "test"
    /\ UNCHANGED <<script, compressed, dec, output, decompressed, final, exc,
                   op, unused, nfeeds, ref>>

\* if not chunk: break
Test ==
    /\ script = "analyze" /\ pc = "test"
    /\ pc' = IF chunk = <<>> THEN "flush" ELSE "decompress"
    /\ UNCHANGED <<script, compressed, tracked_input, dec, output, chunk,
                   decompressed, final, exc, op, unused, nfeeds, ref>>

\* try: decompressed = dec.decompress(chunk); output += decompressed
\* except: print the error; break
Feed ==
    /\ script = "analyze" /\ pc = "decompress"
    /\ \E r \in {decompress(dec, chunk)} :
          /\ dec' = r.d
          /\ exc' = r.exc
          /\ IF r.exc = ""
             THEN /\ decompressed' = r.ret
                  /\ output' = output \o r.ret
                  /\ pc' = "print"
             ELSE /\ UNCHANGED <<decompressed, output>>
                  /\ pc' = "flush"
    /\ op' = "decompress"
    /\ nfeeds' = nfeeds + 1
    /\ UNCHANGED <<script, compressed, tracked_input, chunk, final, unused,
                   ref>>

\* print(f"After reading {tracked_input.bytes_read} bytes ...")
Report ==
    /\ script = "analyze" /\ pc = "print"
    /\ pc' = "read"
    /\ UNCHANGED <<script, compressed, tracked_input, dec, output, chunk,
                   decompressed, final, exc, op, unused, nfeeds, ref>>

\* final = dec.flush(); output += final
Flush ==
    /\ script = "analyze" /\ pc = "flush"
    /\ \E r \in {flush(dec)} :
          /\ dec' = r.d
          /\ exc' = r.exc
          /\ IF r.exc = ""
             THEN /\ final' = r.ret
                  /\ output' = output \o r.ret
                  /\ pc' = "results"
             ELSE /\ UNCHANGED <<final, output>>
                  /\ pc' = "raised"
    /\ op' = "flush"
    /\ UNCHANGED <<script, compressed, tracked_input, chunk, decompressed,
                   unused, nfeeds, ref>>

\* unused = dec.unused_data; print the final results
Results ==
    /\ script = "analyze" /\ pc = "results"
    /\ unused' = unusedData(dec)
    /\ pc' = "done"
    /\ UNCHANGED <<script, compressed, tracked_input, dec, output, chunk,
                   decompressed, final, exc, op, nfeeds, ref>>

(***************************************************************************)
(* check_deflate_consume.py: one call with everything.                      *)
(***************************************************************************)
\* decompressed = dec.decompress(compressed)
CheckDecompress ==
    /\ script = "check" /\ pc = "decompress"
    /\ \E r \in {decompress(dec, compressed)} :
          /\ dec' = r.d
          /\ exc' = r.exc
          /\ IF r.exc = ""
             THEN /\ decompressed' = r.ret
                  /\ output' = r.ret
                  /\ pc' = "results"
             ELSE /\ UNCHANGED <<decompressed, output>>
                  /\ pc' = "raised"
    /\ chunk' = compressed
    /\ op' = "decompress"
    /\ nfeeds' = nfeeds + 1
    /\ UNCHANGED <<script, compressed, tracked_input, final, unused, ref>>

\* unused = dec.unused_data; print the results
CheckResults ==
    /\ script = "check" /\ pc = "results"
    /\ unused' = unusedData(dec)
    /\ pc' = "done"
    /\ UNCHANGED <<script, compressed, tracked_input, dec, output, chunk,
                   decompressed, final, exc, op, nfeeds, ref>>

DriverInit ==
    \/ Start("analyze", Sample, "read")
    \/ Start("check", Sample, "decompress")

DriverNext ==
    \/ Read \/ Test \/ Feed \/ Report \/ Flush \/ Results
    \/ CheckDecompress \/ CheckResults

\* the two scripts as they are, on their own input
SpecDriver == DriverInit /\ [][DriverNext]_vars

\* the positions of a script, and those where it has ended
Positions ==
    {"read", "test", "decompress", "print", "flush", "results", "done",
     "raised"}

Ended == {"done", "raised"}

\* control moves on from a statement that is not the end of the script
MoveOn == pc \notin Ended /\ pc' \in Positions \ {pc}

\* a script runs on until its last statement or an uncaught exception
FairDriver == SpecDriver /\ WF_pc(MoveOn)

(***************************************************************************)
(* The decompression object under any caller: any input of Inputs, cut      *)
(* into chunks of any size up to MaxChunk (or all that is left in one       *)
(* call), decompress after decompress, then flush.  As in the scripts,      *)
(* flush is the last call made: decompress is not called after it.          *)
(***************************************************************************)
ChunkSizes == (0..MaxChunk) \cup {Len(compressed) - tracked_input.pos}

\* decompressed = dec.decompress(tracked_input.read(n))
CallDecompress ==
    /\ script = "api" /\ pc = "feed"
    /\ \E n \in ChunkSizes :
         /\ n <= Len(compressed) - tracked_input.pos
         /\ \E rd \in {read(tracked_input, compressed, n)} :
              /\ tracked_input' = rd.t
              /\ chunk' = rd.data
              /\ \E r \in {decompress(dec, rd.data)} :
                   /\ dec' = r.d
                   /\ exc' = r.exc
                   /\ decompressed' = r.ret
                   /\ output' = output \o r.ret
    /\ op' = "decompress"
    /\ UNCHANGED <<script, compressed, final, unused, nfeeds, pc, ref>>

\* final = dec.flush()
CallFlush ==
    /\ script = "api" /\ pc \in {"feed", "flushed"}
    /\ \E r \in {flush(dec)} :
          /\ dec' = r.d
          /\ exc' = r.exc
          /\ final' = r.ret
          /\ output' = IF r.exc = "" THEN output \o r.ret ELSE output
    /\ unused' = unusedData(dec')
    /\ op' = "flush"
    /\ pc' = "flushed"
    /\ UNCHANGED <<script, compressed, tracked_input, chunk, decompressed,
                   nfeeds, ref>>

Init == \E bytes \in Inputs : Start("api", bytes, "feed")

Next == CallDecompress \/ CallFlush

Spec == Init /\ [][Next]_vars

(***************************************************************************)
(* Properties.  In what follows the decoder states of the description are  *)
(* the modes of the object: Done is DONE (dec.eof), Error is BAD,           *)
(* InBlockHeader is TYPE, InStoredBlock is STORED and COPY, and the other   *)
(* modes are InHuffmanBlock.  A call is a step that sets op.                *)
(***************************************************************************)
AllFed == tracked_input.pos = Len(compressed)

\* C1: chunking independence.  For every input that decodes without error
\* in one call (ref), once all its bytes have been fed in chunks of any
\* sizes, empty chunks included, the concatenated output, the unused
\* data, the number of bytes consumed and the end-of-stream flag are those
\* of the single call, and no call has raised.
C1_ChunkingIndependence ==
    (AllFed /\ ref.exc = "") =>
        /\ exc = ""
        /\ output = ref.ret
        /\ unusedData(dec) = unusedData(ref.d)
        /\ bytesConsumed(dec) = bytesConsumed(ref.d)
        /\ isEOF(dec) = isEOF(ref.d)

\* a valid stream with trailing bytes, fed to its end, the last chunk one byte
C1_Witness ==
    /\ AllFed /\ ref.exc = "" /\ isEOF(ref.d)
    /\ Len(compressed) > 10 /\ Len(chunk) = 1
    /\ output # <<>> /\ output = ref.ret
    /\ unusedData(dec) # <<>>

\* C2: the 39-byte example.  Either script, run to its last statement on
\* the example (all at once, or one byte at a time and then flush), ends
\* with the end of the stream reached, no unused data, and 39 bytes
\* consumed; neither script ends on an exception.
C2_ConcreteScenario ==
    /\ pc # "raised"
    /\ pc = "done" =>
         /\ isEOF(dec)
         /\ unused = <<>>
         /\ unusedData(dec) = <<>>
         /\ Len(compressed) = 39
         /\ bytesConsumed(dec) = 39
         /\ output = ref.ret /\ output # <<>>

C2_Witness == pc = "done" /\ script = "check" /\ isEOF(dec) /\ Len(output) = 67

\* what a decompress call does to the unused data
C3_Step ==
    op' = "decompress" =>
        /\ isEOF(dec) =>
             /\ decompressed' = <<>> /\ exc' = "" /\ output' = output
             /\ bytesConsumed(dec') = bytesConsumed(dec)
             /\ isEOF(dec') /\ dec'.mode = "DONE"
             /\ unusedData(dec') = unusedData(dec) \o chunk'
        /\ (~isEOF(dec) /\ isEOF(dec')) =>
             unusedData(dec')
                = SubSeq(chunk',
                         bytesConsumed(dec') - bytesConsumed(dec) + 1,
                         Len(chunk'))
        /\ ~isEOF(dec') => unusedData(dec') = <<>>

C5_ResumableSuspension ==
    (ref.exc = "" /\ isEOF(ref.d)
       /\ tracked_input.pos < bytesConsumed(ref.d)) =>
        /\ dec.mode # "BAD"
        /\ exc = ""
        /\ ~isEOF(dec)
        /\ IsPrefix(output, ref.ret)

\* suspended between the length and the distance of a back-reference, in
\* the middle of a byte, part of the output produced
C5_Witness ==
    /\ ref.exc = "" /\ isEOF(ref.d)
    /\ tracked_input.pos < bytesConsumed(ref.d)
    /\ op = "decompress" /\ dec.mode = "DIST" /\ dec.bitOff > 0
    /\ output # <<>> /\ Len(output) < Len(ref.ret)

\* a clean boundary between blocks
CleanBoundary(d) == d.mode = "TYPE"

C7_BackReferenceBounds ==
    /\ ~dec.oob
    /\ dec.msg = "invalid distance too far back" =>
         /\ dec.mode = "BAD"
         /\ dec.offset > Len(dec.out)
    /\ (op = "decompress" /\ exc = "invalid distance too far back") =>
         /\ decompressed = <<>>
         /\ IsPrefix(output, dec.out)

\* distance 2 after one byte of output
C7_Witness ==
    /\ op = "decompress" /\ exc = "invalid distance too far back"
    /\ dec.mode = "BAD" /\ Len(dec.out) = 1 /\ dec.offset = 2

\* the call that completes the header of an empty stored block
C8_Step ==
    (op' = "decompress" /\ dec.mode = "STORED"
       /\ dec.buf \o chunk' = <<0, 0, 255, 255>>) =>
        /\ decompressed' = <<>> /\ exc' = ""
        /\ dec'.out = dec.out
        /\ dec.last = 0 => (dec'.mode = "TYPE" /\ ~isEOF(dec'))
        /\ dec.last = 1 => (dec'.mode = "DONE" /\ isEOF(dec'))

\* C8: empty stored block.  A decompress call that completes the header
\* LEN = 0, NLEN = 0xFFFF of a stored block returns nothing and raises
\* nothing, and leaves the object at the next block header when the block
\* is not final and at the end of the stream when it is; the object never
\* rests inside a stored block with nothing left to copy, nor before a
\* header that is all there.
C8_EmptyStoredBlock ==
    /\ [](dec.mode = "COPY" => dec.length > 0)
    /\ [](dec.mode = "STORED" => (dec.bitOff = 0 /\ Len(dec.buf) < 4))
    /\ [][C8_Step]_vars

\* past an empty stored block that is not final, fed one byte at a time
C8_Witness ==
    /\ IsPrefix(<<0, 0, 0, 255, 255>>, compressed)
    /\ op = "decompress" /\ Len(chunk) = 1 /\ tracked_input.pos = 5
    /\ dec.mode = "TYPE" /\ dec.last = 0 /\ output = <<>> /\ exc = ""

\* C9: Bit Reader accounting.  The bit offset is always in 0..7, the byte
\* and bit offsets together are the number of bits read, and the bytes
\* consumed by the reader are the fully read bytes: a byte some of whose
\* bits are unread is still held and not counted.
C9_BitReaderAccounting ==
    /\ dec.bitOff \in 0..7
    /\ 8 * dec.byteOff + dec.bitOff = dec.bitsRead
    /\ dec.byteOff = dec.bitsRead \div 8
    /\ dec.bitOff > 0 => dec.buf # <<>>
    /\ dec.byteOff <= tracked_input.pos

\* some bits of a byte read, after whole bytes
C9_Witness ==
    /\ dec.bitOff > 0 /\ dec.byteOff > 0
    /\ dec.bitsRead > 8 * dec.byteOff
    /\ bytesConsumed(dec) > dec.byteOff

\* the counters of the per-byte script at each of its positions
C10_Inv ==
    script = "analyze" =>
        /\ tracked_input.bytes_read = tracked_input.pos
        /\ tracked_input.bytes_read <= Len(compressed)
        /\ pc \in {"read", "print"} => nfeeds = tracked_input.bytes_read
        /\ pc = "decompress" =>
             (Len(chunk) = chunk_size
                /\ tracked_input.bytes_read = nfeeds + chunk_size)
        /\ pc \in {"flush", "results", "done", "raised"} =>
             (chunk = <<>> \/ exc # "")
        /\ pc \in {"results", "done"} =>
             /\ nfeeds = 39
             /\ tracked_input.bytes_read = 39
        /\ pc = "done" =>
             tracked_input.bytes_read = bytesConsumed(dec) + Len(unused)

\* C10: the loop of the per-byte script.  Each turn reads one byte and
\* feeds it; bytes_read is the number of bytes handed out; the loop is
\* left only on an empty read or an exception; the script comes to its
\* end, and does so after 39 reads of a byte and 39 feeds, with bytes_read
\* at 39, all of them accounted for as consumed or unused.
C10_DriverLoop == []C10_Inv /\ <>(pc \in Ended)

C10_Witness ==
    /\ script = "analyze" /\ pc = "done"
    /\ nfeeds = 39 /\ tracked_input.bytes_read = 39 /\ chunk = <<>>

============================================================================
